---- MODULE Spec2Model ----
(***************************************************************************)
(* A model of the perpetual-futures engine: the per-symbol order book      *)
(* (orderbook.rs), the account and its position ledger (account.rs), the   *)
(* margin calculator (margin.rs) and the exchange orchestrator             *)
(* (exchange.rs).                                                          *)
(*                                                                         *)
(* Decimals.  Order prices and quantities are drawn from small sets of     *)
(* integers.  Values that the code obtains by a BigDecimal division        *)
(* (required margin, entry price, liquidation price, balances) are exact   *)
(* rationals <<n, d>> in lowest terms with d > 0.  Sums, differences and   *)
(* products of BigDecimals are exact.  A BigDecimal quotient is cut off    *)
(* and rounded once it has 100 significant digits; BigDecimal_div does     *)
(* the same long division with DivDigits significant digits, so that a     *)
(* quotient that does not terminate (an entry price such as 5/3) is the    *)
(* rounded decimal and not the fraction.  Leverages are drawn from values  *)
(* whose reciprocal is a short terminating decimal, for which the          *)
(* quotient is exact at either precision.                                  *)
(*                                                                         *)
(* Options.  Option<T> is a sequence: <<>> is None and <<v>> is Some(v).   *)
(*                                                                         *)
(* Identifiers.  Order ids are UUIDs made by the caller; the model hands   *)
(* out 1, 2, 3, ... from nextId, so ids are unique and a smaller id was    *)
(* submitted earlier.  Trade ids and all timestamps except the market      *)
(* data's last_update are never read by the code and are left out.         *)
(***************************************************************************)
EXTENDS Integers, Sequences, FiniteSets, TLC

VARIABLES
    symbols,            \* Exchange.symbols: the configured symbols
    quote_asset,        \* Exchange.quote_asset
    order_books,        \* Exchange.order_books: symbol -> [symbol, bids, asks]
    accounts,           \* Exchange.accounts: user_id -> [balances, positions]
    market_data,        \* Exchange.market_data: symbol -> MarketData
    last_trade_prices,  \* Exchange.last_trade_prices: symbol -> price
    now,                \* the wall clock (Utc::now()), in seconds
    nextId,             \* the next fresh order id
    funding_calculator, \* Exchange.funding_calculator: the FundingCalculator
    calls,              \* number of direct calls of the ledger and the calculator
    fills,              \* history of the fills of the direct update_position calls
    result,             \* the last call: its operation, argument and outcome
    roundTrip           \* history of the last place-then-cancel round trip

vars == <<symbols, quote_asset, order_books, accounts, market_data,
          last_trade_prices, funding_calculator, now, nextId, calls, fills,
          result, roundTrip>>

----------------------------------------------------------------------------
(* Bounds of the model *)

MaxOrders == 2
MaxPrice == 2
MaxQty == 2

Prices == 1..MaxPrice
Quantities == 1..MaxQty

Sides == {"Buy", "Sell"}
OrderTypes == {"Limit", "Market", "Stop", "StopLimit"}
TimeInForces == {"GTC", "IOC", "FOK"}

None == <<>>
Some(v) == <<v>>

----------------------------------------------------------------------------
(* Exact decimals as rationals *)

RECURSIVE Gcd(_, _)
Gcd(a, b) == IF b = 0 THEN a ELSE Gcd(b, a % b)

Abs(x) == IF x < 0 THEN -x ELSE x

Rat(n, d) ==
    LET s == IF d < 0 THEN -1 ELSE 1
        g == Gcd(Abs(n), Abs(d))
    IN  <<(s * n) \div g, (s * d) \div g>>

RatInt(i) == <<i, 1>>
RatAdd(a, b) == Rat(a[1] * b[2] + b[1] * a[2], a[2] * b[2])
RatSub(a, b) == Rat(a[1] * b[2] - b[1] * a[2], a[2] * b[2])
RatMul(a, b) == Rat(a[1] * b[1], a[2] * b[2])
RatLess(a, b) == a[1] * b[2] < b[1] * a[2]
RatLeq(a, b) == a[1] * b[2] <= b[1] * a[2]
RatNeg(a) == <<-a[1], a[2]>>
RatAbs(a) == <<Abs(a[1]), a[2]>>
RatMax(a, b) == IF RatLess(a, b) THEN b ELSE a
RatMin(a, b) == IF RatLess(b, a) THEN b ELSE a

\* the number of significant digits that a quotient keeps (100 in the
\* bigdecimal crate)
DivDigits == 3

RECURSIVE Pow10(_)
Pow10(k) == IF k = 0 THEN 1 ELSE 10 * Pow10(k - 1)

\* the number of decimal digits of a positive integer
RECURSIVE count_decimal_digits(_)
count_decimal_digits(n) == IF n < 10 THEN 1 ELSE 1 + count_decimal_digits(n \div 10)

\* the long division of the quotient's digit loop: rem10 is ten times the
\* remainder; the last step rounds on the next digit
RECURSIVE long_division(_, _, _, _, _)
long_division(quotient, rem10, den, precision, scale) ==
    IF rem10 # 0 /\ precision < DivDigits
    THEN long_division(quotient * 10 + (rem10 \div den), (rem10 % den) * 10, den,
                       precision + 1, scale + 1)
    ELSE Rat(quotient + (IF rem10 \div den >= 5 THEN 1 ELSE 0), Pow10(scale))

\* the numerator is shifted until it is not below the denominator
RECURSIVE shift_numerator(_, _, _)
shift_numerator(num, den, scale) ==
    IF num < den THEN shift_numerator(num * 10, den, scale + 1)
    ELSE long_division(num \div den, (num % den) * 10, den,
                       count_decimal_digits(num \div den), scale)

\* the quotient of two positive integers as a decimal
impl_division(num, den) ==
    IF num = 0 THEN RatInt(0) ELSE shift_numerator(num, den, 0)

\* BigDecimal / BigDecimal for a divisor that is not zero (a zero divisor
\* panics, which the callers model)
BigDecimal_div(a, b) ==
    IF (a[1] < 0) = (b[1] < 0)
    THEN impl_division(Abs(a[1]) * b[2], a[2] * Abs(b[1]))
    ELSE RatNeg(impl_division(Abs(a[1]) * b[2], a[2] * Abs(b[1])))

----------------------------------------------------------------------------
(* models.rs: Order, Trade, OrderBook *)

Order(id, user, symbol, side, type, price, qty, lev, tif) ==
    [id |-> id, user_id |-> user, symbol |-> symbol, side |-> side,
     order_type |-> type, price |-> price, quantity |-> qty,
     filled_quantity |-> 0, leverage |-> lev, time_in_force |-> tif]

NoOrder == Order(0, 0, "", "Buy", "Limit", 0, 0, None, "GTC")

Trade(symbol, buyer, seller, price, qty) ==
    [symbol |-> symbol, buyer_order_id |-> buyer, seller_order_id |-> seller,
     price |-> price, quantity |-> qty]

\* OrderBook::new
OrderBook_new(symbol) == [symbol |-> symbol, bids |-> <<>>, asks |-> <<>>]

----------------------------------------------------------------------------
(* orderbook.rs *)

\* Vec::sort_by is a stable sort: elements that compare Equal keep their
\* order.  The model sorts by stable insertion, left to right: an element
\* goes behind every element that does not sort strictly after it.

\* the comparator of the bids: b.price.cmp(&a.price), a before b
bids_less(a, b) == b.price < a.price

\* the comparator of the asks: a.price.cmp(&b.price), a before b
asks_less(a, b) == a.price < b.price

RECURSIVE insert_bid(_, _)
insert_bid(sorted, x) ==
    IF sorted = <<>> THEN <<x>>
    ELSE IF bids_less(x, Head(sorted)) THEN <<x>> \o sorted
    ELSE <<Head(sorted)>> \o insert_bid(Tail(sorted), x)

RECURSIVE insert_ask(_, _)
insert_ask(sorted, x) ==
    IF sorted = <<>> THEN <<x>>
    ELSE IF asks_less(x, Head(sorted)) THEN <<x>> \o sorted
    ELSE <<Head(sorted)>> \o insert_ask(Tail(sorted), x)

\* a sort that is not stable: an element goes in front of its equals
RECURSIVE insert_bid_before_equal(_, _)
insert_bid_before_equal(sorted, x) ==
    IF sorted = <<>> THEN <<x>>
    ELSE IF ~bids_less(Head(sorted), x) THEN <<x>> \o sorted
    ELSE <<Head(sorted)>> \o insert_bid_before_equal(Tail(sorted), x)

RECURSIVE sort_bids_unstable(_)
sort_bids_unstable(bids) ==
    IF bids = <<>> THEN <<>>
    ELSE insert_bid_before_equal(sort_bids_unstable(SubSeq(bids, 1, Len(bids) - 1)),
                                 bids[Len(bids)])

\* self.bids.sort_by(|a, b| b.price.cmp(&a.price))
RECURSIVE sort_bids(_)
sort_bids(bids) ==
    IF bids = <<>> THEN <<>>
    ELSE insert_bid(sort_bids(SubSeq(bids, 1, Len(bids) - 1)), bids[Len(bids)])

\* self.asks.sort_by(|a, b| a.price.cmp(&b.price))
RECURSIVE sort_asks(_)
sort_asks(asks) ==
    IF asks = <<>> THEN <<>>
    ELSE insert_ask(sort_asks(SubSeq(asks, 1, Len(asks) - 1)), asks[Len(asks)])

\* the fill size of one step of either matching loop
fill_quantity(resting, remaining_quantity) ==
    IF resting.quantity - resting.filled_quantity < remaining_quantity
    THEN resting.quantity - resting.filled_quantity
    ELSE remaining_quantity

buy_trade_at_incoming_price(symbol, order, ask, fill) ==
    Trade(symbol, order.id, ask.id, order.price, fill)

\* the Trade of match_buy_order
buy_trade(symbol, order, ask, fill) ==
    Trade(symbol, order.id, ask.id, ask.price, fill)

\* the Trade of match_sell_order
sell_trade(symbol, order, bid, fill) ==
    Trade(symbol, bid.id, order.id, bid.price, fill)

\* the retain() that clears the fully filled resting orders
retain_unfilled(side) == SelectSeq(side, LAMBDA o : o.filled_quantity < o.quantity)

\* the break of match_sell_order's loop, which a copy of it into
\* match_buy_order would keep
buy_stops_as_sell(order, ask) ==
    order.order_type = "Limit" /\ ask.price < order.price

\* the break of match_buy_order's loop: the ask is above the limit
buy_stops_at(order, ask) ==
    order.order_type = "Limit" /\ ask.price > order.price

\* the break of match_sell_order's loop: the bid is below the limit
sell_stops_at(order, bid) ==
    order.order_type = "Limit" /\ bid.price < order.price

\* the loop of match_buy_order from the i-th ask on
RECURSIVE match_buy_loop(_, _, _, _, _, _)
match_buy_loop(symbol, asks, i, order, remaining_quantity, trades) ==
    IF i > Len(asks)
    THEN [resting |-> asks, remaining |-> remaining_quantity, trades |-> trades]
    ELSE IF buy_stops_at(order, asks[i])
    THEN [resting |-> asks, remaining |-> remaining_quantity, trades |-> trades]
    ELSE
        LET fill == fill_quantity(asks[i], remaining_quantity)
            trade == buy_trade(symbol, order, asks[i], fill)
            asks2 == [asks EXCEPT ![i].filled_quantity = @ + fill]
            rem2 == remaining_quantity - fill
        IN  IF rem2 <= 0
            THEN [resting |-> asks2, remaining |-> rem2,
                  trades |-> Append(trades, trade)]
            ELSE match_buy_loop(symbol, asks2, i + 1, order, rem2,
                                Append(trades, trade))

\* the loop of match_sell_order from the i-th bid on
RECURSIVE match_sell_loop(_, _, _, _, _, _)
match_sell_loop(symbol, bids, i, order, remaining_quantity, trades) ==
    IF i > Len(bids)
    THEN [resting |-> bids, remaining |-> remaining_quantity, trades |-> trades]
    ELSE IF sell_stops_at(order, bids[i])
    THEN [resting |-> bids, remaining |-> remaining_quantity, trades |-> trades]
    ELSE
        LET fill == fill_quantity(bids[i], remaining_quantity)
            trade == sell_trade(symbol, order, bids[i], fill)
            bids2 == [bids EXCEPT ![i].filled_quantity = @ + fill]
            rem2 == remaining_quantity - fill
        IN  IF rem2 <= 0
            THEN [resting |-> bids2, remaining |-> rem2,
                  trades |-> Append(trades, trade)]
            ELSE match_sell_loop(symbol, bids2, i + 1, order, rem2,
                                 Append(trades, trade))

\* the incoming order as match_*_order pushes it: its quantity is the
\* remainder, and its filled_quantity keeps what the loop added to it
posted_order(order, remaining_quantity) ==
    [order EXCEPT !.filled_quantity = @ + (order.quantity - remaining_quantity),
                  !.quantity = remaining_quantity]

\* match_buy_order after its loop: the retain and the post of the remainder
match_buy_finish(book, order, m) ==
    IF m.remaining > 0 /\ order.order_type = "Limit"
    THEN [book |-> [book EXCEPT
                      !.asks = retain_unfilled(m.resting),
                      !.bids = sort_bids(Append(book.bids,
                                                posted_order(order, m.remaining)))],
          trades |-> m.trades, status |-> "Ok"]
    ELSE [book |-> [book EXCEPT !.asks = retain_unfilled(m.resting)],
          trades |-> m.trades, status |-> "Ok"]

\* match_sell_order after its loop
match_sell_finish(book, order, m) ==
    IF m.remaining > 0 /\ order.order_type = "Limit"
    THEN [book |-> [book EXCEPT
                      !.bids = retain_unfilled(m.resting),
                      !.asks = sort_asks(Append(book.asks,
                                                posted_order(order, m.remaining)))],
          trades |-> m.trades, status |-> "Ok"]
    ELSE [book |-> [book EXCEPT !.bids = retain_unfilled(m.resting)],
          trades |-> m.trades, status |-> "Ok"]

\* OrderBook::match_buy_order: the book after the call and the trades
match_buy_order(book, order) ==
    match_buy_finish(book, order,
        match_buy_loop(book.symbol, book.asks, 1, order, order.quantity, <<>>))

\* OrderBook::match_sell_order
match_sell_order(book, order) ==
    match_sell_finish(book, order,
        match_sell_loop(book.symbol, book.bids, 1, order, order.quantity, <<>>))

\* OrderBook::add_order
add_order(book, order) ==
    IF order.side = "Buy" THEN match_buy_order(book, order)
    ELSE match_sell_order(book, order)

\* Iterator::position / find: the index of the first order with the id, or 0
RECURSIVE position_of(_, _, _)
position_of(side, order_id, i) ==
    IF i > Len(side) THEN 0
    ELSE IF side[i].id = order_id THEN i
    ELSE position_of(side, order_id, i + 1)

\* a removal that always takes the front order
remove_front(side, pos) == Tail(side)

\* Vec::remove
remove_at(side, pos) == SubSeq(side, 1, pos - 1) \o SubSeq(side, pos + 1, Len(side))

\* OrderBook::cancel_order
OrderBook_cancel_order(book, order_id, side) ==
    IF side = "Buy"
    THEN LET pos == position_of(book.bids, order_id, 1)
         IN  IF pos > 0
             THEN [book |-> [book EXCEPT !.bids = remove_at(book.bids, pos)],
                   status |-> "Ok"]
             ELSE [book |-> book, status |-> "OrderNotFound"]
    ELSE LET pos == position_of(book.asks, order_id, 1)
         IN  IF pos > 0
             THEN [book |-> [book EXCEPT !.asks = remove_at(book.asks, pos)],
                   status |-> "Ok"]
             ELSE [book |-> book, status |-> "OrderNotFound"]

\* one side of get_depth: the price and the remaining quantity of the
\* first depth orders
depth_of(side, depth) ==
    [i \in 1..(IF depth < Len(side) THEN depth ELSE Len(side)) |->
        <<side[i].price, side[i].quantity - side[i].filled_quantity>>]

\* OrderBook::get_depth
get_depth(book, depth) ==
    [bids |-> depth_of(book.bids, depth), asks |-> depth_of(book.asks, depth)]

----------------------------------------------------------------------------
(* margin.rs *)

\* maintenance_margin = 0.005
maintenance_margin == Rat(5, 1000)

\* the Isolated buffer 0.001 and the Cross buffer 0.002
liquidation_buffer(margin_type) ==
    IF margin_type = "Isolated" THEN Rat(1, 1000) ELSE Rat(2, 1000)

\* MarginCalculator::calculate_required_margin
calculate_required_margin(quantity, price, leverage, margin_type) ==
    LET base_margin == BigDecimal_div(RatInt(quantity * price), RatInt(leverage))
    IN  IF margin_type = "Isolated" THEN base_margin
        ELSE RatMul(base_margin, Rat(11, 10))

\* MarginCalculator::calculate_liquidation_price
calculate_liquidation_price(entry_price, side, leverage, margin_type) ==
    IF side = "Buy"
    THEN RatMul(entry_price,
                RatAdd(RatAdd(RatSub(RatInt(1),
                                     BigDecimal_div(RatInt(1), RatInt(leverage))),
                              maintenance_margin),
                       liquidation_buffer(margin_type)))
    ELSE RatMul(entry_price,
                RatSub(RatSub(RatAdd(RatInt(1),
                                     BigDecimal_div(RatInt(1), RatInt(leverage))),
                              maintenance_margin),
                       liquidation_buffer(margin_type)))

\* MarginCalculator::is_position_liquidated
is_position_liquidated(current_price, entry_price, side, leverage, margin_type) ==
    LET liquidation_price ==
            calculate_liquidation_price(entry_price, side, leverage, margin_type)
    IN  IF side = "Buy" THEN RatLeq(current_price, liquidation_price)
        ELSE RatLeq(liquidation_price, current_price)

----------------------------------------------------------------------------
(* account.rs *)

\* HashMap::new
EmptyMap == [x \in {} |-> 0]

\* Account::new
Account_new == [balances |-> EmptyMap, positions |-> EmptyMap]

\* Account::get_balance; Account::withdraw reads the same value and
\* subtracts nothing
get_balance(account, asset) ==
    IF asset \in DOMAIN account.balances THEN account.balances[asset]
    ELSE RatInt(0)

withdraw(account, asset) == get_balance(account, asset)

\* a map with key k set to v (HashMap::insert / entry)
MapPut(f, k, v) == [x \in (DOMAIN f) \cup {k} |-> IF x = k THEN v ELSE f[x]]

\* Account::deposit
deposit(account, asset, amount) ==
    [account EXCEPT !.balances =
        MapPut(@, asset, RatAdd(get_balance(account, asset), amount))]

\* the Position that update_position inserts when the symbol has none
new_position(symbol, side, position_type, leverage, margin_type) ==
    [symbol |-> symbol, side |-> side, position_type |-> position_type,
     quantity |-> 0,
     entry_price |-> RatInt(0), leverage |-> leverage,
     liquidation_price |-> None, margin |-> None, margin_type |-> margin_type]

\* the side after the quantity block of update_position, which assigns
\* position.side on a flip before the entry price is computed
side_after_quantity(position, side, quantity) ==
    IF position.side # side /\ quantity > position.quantity THEN side
    ELSE position.side

\* a quantity that is the fill minus the position whenever the sides differ
new_quantity_signed(position, side, quantity) ==
    IF position.side = side THEN position.quantity + quantity
    ELSE quantity - position.quantity

\* new_quantity of update_position
new_quantity(position, side, quantity) ==
    IF position.side = side THEN position.quantity + quantity
    ELSE IF quantity > position.quantity THEN quantity - position.quantity
    ELSE position.quantity - quantity

\* an entry price that is the plain mean of the old entry and the fill price
new_entry_price_unweighted(position, side, quantity, entry_price) ==
    IF position.quantity = 0 THEN RatInt(entry_price)
    ELSE BigDecimal_div(RatAdd(position.entry_price, RatInt(entry_price)),
                        RatInt(2))

\* new_entry_price of update_position; it reads position.side after the
\* quantity block has assigned it
new_entry_price(position, side, quantity, entry_price) ==
    IF side_after_quantity(position, side, quantity) = side
    THEN BigDecimal_div(
             RatAdd(RatMul(RatInt(position.quantity), position.entry_price),
                    RatInt(quantity * entry_price)),
             RatInt(position.quantity + quantity))
    ELSE IF quantity > position.quantity THEN RatInt(entry_price)
    ELSE position.entry_price

\* the quantity, side and entry price block of update_position
fold_fill(position, side, quantity, entry_price) ==
    [position EXCEPT
        !.side = side_after_quantity(position, side, quantity),
        !.quantity = new_quantity(position, side, quantity),
        !.entry_price = new_entry_price(position, side, quantity, entry_price)]

\* the margin block of update_position
margin_fields(position, position_type, leverage, margin_type) ==
    IF position_type = "Margin" /\ leverage # None /\ margin_type # None
    THEN [position EXCEPT
            !.leverage = leverage,
            !.margin_type = margin_type,
            !.liquidation_price =
                IF position.quantity > 0
                THEN Some(calculate_liquidation_price(
                            position.entry_price, position.side, leverage[1],
                            margin_type[1]))
                ELSE @]
    ELSE position

\* self.positions.entry(symbol).or_insert(Position { .. })
position_entry(positions, symbol, side, position_type, leverage, margin_type) ==
    IF symbol \in DOMAIN positions THEN positions[symbol]
    ELSE new_position(symbol, side, position_type, leverage, margin_type)

\* Account::update_position on the account's positions map
update_position(positions, symbol, side, quantity, entry_price, position_type, leverage, margin_type) ==
    MapPut(positions, symbol,
           margin_fields(
               fold_fill(position_entry(positions, symbol, side, position_type,
                                        leverage, margin_type),
                         side, quantity, entry_price),
               position_type, leverage, margin_type))

\* Account::check_margin_requirements: "Ok" or the error it returns
check_margin_requirements(account, order, current_price, margin_type) ==
    IF order.leverage = None \/ margin_type = None THEN "Ok"
    ELSE
      LET leverage == order.leverage[1]
          required_margin ==
              calculate_required_margin(order.quantity, order.price, leverage,
                                        margin_type[1])
          balance == get_balance(account, "USDT")
      IN
        IF RatLess(balance, required_margin) THEN "InsufficientBalance"
        ELSE IF order.symbol \notin DOMAIN account.positions THEN "Ok"
        ELSE
          LET position == account.positions[order.symbol]
              entry ==
                  IF order.side = position.side
                  THEN BigDecimal_div(
                           RatAdd(RatMul(RatInt(position.quantity),
                                         position.entry_price),
                                  RatInt(order.quantity * order.price)),
                           RatInt(position.quantity + order.quantity))
                  ELSE IF order.quantity >= position.quantity
                  THEN RatInt(order.price)
                  ELSE position.entry_price
          IN  IF /\ position.position_type = "Margin"
                 /\ is_position_liquidated(RatInt(current_price), entry,
                                           order.side, leverage, margin_type[1])
              THEN "WouldLiquidate"
              ELSE "Ok"

----------------------------------------------------------------------------
(* funding.rs *)

\* FundingCalculator::new at clock value t
FundingCalculator_new(funding_interval, t) ==
    [funding_interval |-> funding_interval, funding_rate_history |-> <<>>,
     funding_payments |-> <<>>, last_funding_time |-> t]

FundingRate(symbol, rate, next_funding_time) ==
    [symbol |-> symbol, rate |-> rate, next_funding_time |-> next_funding_time]

NoRate == FundingRate("", RatInt(0), 0)

FundingPayment(symbol, rate, payment) ==
    [symbol |-> symbol, rate |-> rate, payment |-> payment]

\* price_diff / index_price, for an index price that is not zero
premium_rate(mark_price, index_price) ==
    BigDecimal_div(RatInt(mark_price - index_price), RatInt(index_price))

\* base_interest_rate = 0.0001
base_interest_rate == Rat(1, 10000)

\* oi_ratio
oi_ratio(open_interest_long, open_interest_short) ==
    IF open_interest_long + open_interest_short > 0
    THEN BigDecimal_div(RatInt(open_interest_long - open_interest_short),
                        RatInt(open_interest_long + open_interest_short))
    ELSE RatInt(0)

\* oi_impact = oi_ratio * 0.0001
oi_impact(open_interest_long, open_interest_short) ==
    RatMul(oi_ratio(open_interest_long, open_interest_short), Rat(1, 10000))

\* funding_rate.max(-0.00075).min(0.00075)
clamped_rate(funding_rate) ==
    RatMin(RatMax(funding_rate, Rat(-75, 100000)), Rat(75, 100000))

\* the end of calculate_funding_rate: the rate is pushed to the history
\* and the schedule advances
funding_rate_pushed(fc, funding_rate) ==
    [status |-> "Ok",
     calculator |-> [fc EXCEPT
                       !.funding_rate_history = Append(@, funding_rate),
                       !.last_funding_time = funding_rate.next_funding_time],
     rate |-> funding_rate]

\* FundingCalculator::calculate_funding_rate: the calculator after the
\* call and the rate, or the panic of the division by a zero index price
calculate_funding_rate(fc, symbol, mark_price, index_price, open_interest_long, open_interest_short) ==
    IF index_price = 0
    THEN [status |-> "Panic", calculator |-> fc, rate |-> NoRate]
    ELSE funding_rate_pushed(fc,
             FundingRate(symbol,
                 clamped_rate(
                     RatAdd(RatAdd(premium_rate(mark_price, index_price),
                                   base_interest_rate),
                            oi_impact(open_interest_long, open_interest_short))),
                 fc.last_funding_time + fc.funding_interval))

\* the filter of apply_funding's loop
skips_funding(position, funding_rate) ==
    \/ position.symbol # funding_rate.symbol
    \/ position.quantity = 0
    \/ position.position_type # "Margin"

\* funding_payment = quantity * entry_price * rate
funding_payment(position, funding_rate) ==
    RatMul(RatMul(RatInt(position.quantity), position.entry_price),
           funding_rate.rate)

\* a settlement that credits the long and debits the short
margin_after_funding_swapped(position, payment) ==
    IF position.side = "Buy" THEN RatAdd(position.margin[1], payment)
    ELSE RatSub(position.margin[1], payment)

\* the margin after the payment: a Buy pays it, a Sell receives it
margin_after_funding(position, payment) ==
    IF position.side = "Buy" THEN RatSub(position.margin[1], payment)
    ELSE RatAdd(position.margin[1], payment)

\* self.funding_payments.push(payment)
payment_recorded(fc, position, funding_rate) ==
    [fc EXCEPT !.funding_payments =
        Append(@, FundingPayment(position.symbol, funding_rate.rate,
                                 funding_payment(position, funding_rate)))]

\* the loop of apply_funding over the positions, which the HashMap hands
\* out in the order keys, from the i-th on
RECURSIVE apply_funding_loop(_, _, _, _, _)
RECURSIVE apply_funding_paid(_, _, _, _, _)
RECURSIVE apply_funding_margin(_, _, _, _, _)
apply_funding_loop(fc, positions, keys, i, funding_rate) ==
    IF i > Len(keys)
    THEN [status |-> "Ok", calculator |-> fc, positions |-> positions]
    ELSE IF skips_funding(positions[keys[i]], funding_rate)
    THEN apply_funding_loop(fc, positions, keys, i + 1, funding_rate)
    ELSE apply_funding_paid(
             payment_recorded(fc, positions[keys[i]], funding_rate),
             positions, keys, i, funding_rate)

\* the loop body once the payment is recorded
apply_funding_paid(fc, positions, keys, i, funding_rate) ==
    IF positions[keys[i]].margin = None
    THEN apply_funding_loop(fc, positions, keys, i + 1, funding_rate)
    ELSE apply_funding_margin(fc,
             [positions EXCEPT ![keys[i]].margin =
                 Some(margin_after_funding(positions[keys[i]],
                          funding_payment(positions[keys[i]], funding_rate)))],
             keys, i, funding_rate)

\* the loop body once the margin is settled
apply_funding_margin(fc, positions, keys, i, funding_rate) ==
    IF RatLess(positions[keys[i]].margin[1], RatInt(0))
    THEN [status |-> "FundingError", calculator |-> fc, positions |-> positions]
    ELSE apply_funding_loop(fc, positions, keys, i + 1, funding_rate)

\* FundingCalculator::apply_funding at clock value t
apply_funding(fc, positions, keys, funding_rate, t) ==
    IF t < funding_rate.next_funding_time
    THEN [status |-> "Ok", calculator |-> fc, positions |-> positions]
    ELSE apply_funding_loop(fc, positions, keys, 1, funding_rate)

----------------------------------------------------------------------------
(* exchange.rs *)

\* the staleness threshold of the market data, in seconds
StaleAfter == 30

\* the MarketData that Exchange::new inserts for a symbol
MarketData_new(t) ==
    [mark_price |-> 0, index_price |-> 0, open_interest_long |-> 0,
     open_interest_short |-> 0, last_update |-> t]

\* Vec::contains
Contains(seq, x) == \E i \in 1..Len(seq) : seq[i] = x

\* a threshold that already rejects data of exactly 30 seconds
is_stale_inclusive(md, t) == t - md.last_update >= StaleAfter

\* Utc::now() - market_data.last_update > Duration::seconds(30)
is_stale(md, t) == t - md.last_update > StaleAfter

\* the position's margin after process_trade has added the PnL to it
credit_pnl(position, pnl) ==
    IF position.quantity > 0 /\ position.margin # None
    THEN [position EXCEPT !.margin = Some(RatAdd(@[1], pnl))]
    ELSE position

\* the buyer's block of process_trade on the buyer's positions
buyer_positions(positions, trade, buyer_order) ==
    [update_position(positions, trade.symbol, "Buy", trade.quantity, trade.price,
                     "Margin", buyer_order.leverage, Some("Isolated"))
        EXCEPT ![trade.symbol] =
            credit_pnl(@, RatMul(RatSub(RatInt(trade.price), @.entry_price),
                                 RatInt(@.quantity)))]

\* the seller's block of process_trade on the seller's positions
seller_positions(positions, trade, seller_order) ==
    [update_position(positions, trade.symbol, "Sell", trade.quantity, trade.price,
                     "Margin", seller_order.leverage, Some("Isolated"))
        EXCEPT ![trade.symbol] =
            credit_pnl(@, RatMul(RatSub(@.entry_price, RatInt(trade.price)),
                                 RatInt(@.quantity)))]

\* process_trade from the seller's get_account on
process_trade_seller(accts, trade, seller_order) ==
    IF seller_order.user_id \notin DOMAIN accts
    THEN [accounts |-> accts, status |-> "OrderNotFound"]
    ELSE [accounts |-> [accts EXCEPT ![seller_order.user_id].positions =
                           seller_positions(@, trade, seller_order)],
          status |-> "Ok"]

\* process_trade from the buyer's get_account on
process_trade_buyer(accts, trade, buyer_order, seller_order) ==
    IF buyer_order.user_id \notin DOMAIN accts
    THEN [accounts |-> accts, status |-> "OrderNotFound"]
    ELSE process_trade_seller(
             [accts EXCEPT ![buyer_order.user_id].positions =
                 buyer_positions(@, trade, buyer_order)],
             trade, seller_order)

\* process_trade once both orders have been looked up in the book
process_trade_found(accts, trade, book, bpos, spos) ==
    IF bpos = 0 \/ spos = 0 THEN [accounts |-> accts, status |-> "OrderNotFound"]
    ELSE process_trade_buyer(accts, trade, book.bids[bpos], book.asks[spos])

\* Exchange::process_trade: the accounts after it and "Ok" or its error
process_trade(books, accts, trade) ==
    process_trade_found(accts, trade, books[trade.symbol],
        position_of(books[trade.symbol].bids, trade.buyer_order_id, 1),
        position_of(books[trade.symbol].asks, trade.seller_order_id, 1))

\* the loop of place_order over the trades, from the i-th trade on
RECURSIVE process_trades(_, _, _, _, _)
RECURSIVE process_trades_step(_, _, _, _, _)
process_trades_step(books, r, ltp, trades, i) ==
    IF r.status # "Ok"
    THEN [accounts |-> r.accounts, last_trade_prices |-> ltp, status |-> r.status]
    ELSE process_trades(books, r.accounts,
                        MapPut(ltp, trades[i].symbol, trades[i].price),
                        trades, i + 1)

process_trades(books, accts, ltp, trades, i) ==
    IF i > Len(trades)
    THEN [accounts |-> accts, last_trade_prices |-> ltp, status |-> "Ok"]
    ELSE process_trades_step(books, process_trade(books, accts, trades[i]),
                             ltp, trades, i)

\* a rejection of place_order before the book is touched
rejected(status) ==
    [status |-> status, order_books |-> order_books, accounts |-> accounts,
     last_trade_prices |-> last_trade_prices, trades |-> <<>>]

\* the outcome of place_order from the outcome of the loop over the trades
place_order_outcome(books, trades, done) ==
    [status |-> done.status, order_books |-> books, accounts |-> done.accounts,
     last_trade_prices |-> done.last_trade_prices, trades |-> trades]

\* place_order once add_order has returned
place_order_added(order, added) ==
    place_order_outcome(
        [order_books EXCEPT ![order.symbol] = added.book], added.trades,
        process_trades([order_books EXCEPT ![order.symbol] = added.book],
                       accounts, last_trade_prices, added.trades, 1))

\* place_order once check_margin_requirements has returned
place_order_checked(order, check) ==
    IF check # "Ok" THEN rejected(check)
    ELSE IF /\ order.leverage # None
            /\ RatLess(withdraw(accounts[order.user_id], quote_asset),
                       calculate_required_margin(order.quantity, order.price,
                                                 order.leverage[1], "Isolated"))
    THEN rejected("InsufficientBalance")
    ELSE place_order_added(order, add_order(order_books[order.symbol], order))

\* Exchange::place_order: the venue state after the call, "Ok" or the
\* error, and the trades that add_order made
place_order(order) ==
    IF ~Contains(symbols, order.symbol) THEN rejected("InvalidOrder")
    ELSE IF order.symbol \notin DOMAIN market_data THEN rejected("InvalidOrder")
    ELSE IF is_stale(market_data[order.symbol], now) THEN rejected("InvalidOrder")
    ELSE IF order.user_id \notin DOMAIN accounts THEN rejected("OrderNotFound")
    ELSE place_order_checked(order,
             check_margin_requirements(accounts[order.user_id], order,
                                       market_data[order.symbol].mark_price,
                                       Some("Isolated")))

\* the outcome of a cancel_order that has changed nothing
cancel_failed(status, order) ==
    [status |-> status, order_books |-> order_books, accounts |-> accounts,
     order |-> order]

\* cancel_order once OrderBook::cancel_order has removed the order
cancel_refund(user_id, books, order) ==
    IF order.leverage = None
    THEN [status |-> "Ok", order_books |-> books, accounts |-> accounts,
          order |-> order]
    ELSE IF user_id \notin DOMAIN accounts
    THEN [status |-> "OrderNotFound", order_books |-> books,
          accounts |-> accounts, order |-> order]
    ELSE [status |-> "Ok", order_books |-> books,
          accounts |-> [accounts EXCEPT ![user_id] =
              deposit(@, quote_asset,
                      calculate_required_margin(order.quantity, order.price,
                                                order.leverage[1], "Isolated"))],
          order |-> order]

\* cancel_order once the order has been found on the named side
cancel_found(user_id, symbol, order, cancelled) ==
    IF cancelled.status # "Ok" THEN cancel_failed(cancelled.status, order)
    ELSE cancel_refund(user_id,
                       [order_books EXCEPT ![symbol] = cancelled.book], order)

\* cancel_order once the side has been searched for the order
cancel_lookup(user_id, symbol, order_id, side, resting, pos) ==
    IF pos = 0 THEN cancel_failed("OrderNotFound", NoOrder)
    ELSE cancel_found(user_id, symbol, resting[pos],
                      OrderBook_cancel_order(order_books[symbol], order_id, side))

\* the side of the book that cancel_order searches
resting_side(book, side) == IF side = "Buy" THEN book.bids ELSE book.asks

\* Exchange::cancel_order: the order books and accounts after the call,
\* "Ok" or the error, and the order it found
Exchange_cancel_order(user_id, symbol, order_id, side) ==
    IF symbol \notin DOMAIN order_books THEN cancel_failed("InvalidOrder", NoOrder)
    ELSE cancel_lookup(user_id, symbol, order_id, side,
                       resting_side(order_books[symbol], side),
                       position_of(resting_side(order_books[symbol], side),
                                   order_id, 1))

\* the loops of run_funding: over the symbols from the i-th on, and for
\* one rate over the accounts, which the HashMap hands out in the order
\* account_order, from the j-th on; key_order gives the order of each
\* account's positions
RECURSIVE run_funding_symbols(_, _, _, _, _, _)
RECURSIVE run_funding_rated(_, _, _, _, _, _)
RECURSIVE run_funding_applied(_, _, _, _, _, _)
RECURSIVE run_funding_accounts(_, _, _, _, _, _)
RECURSIVE run_funding_account(_, _, _, _, _, _)

run_funding_accounts(fc, accts, account_order, j, key_order, rate) ==
    IF j > Len(account_order)
    THEN [status |-> "Ok", calculator |-> fc, accounts |-> accts]
    ELSE run_funding_account(accts, account_order, j, key_order, rate,
             apply_funding(fc, accts[account_order[j]].positions,
                           key_order[account_order[j]], rate, now))

\* the accounts loop once apply_funding has returned for the j-th account
run_funding_account(accts, account_order, j, key_order, rate, applied) ==
    IF applied.status # "Ok"
    THEN [status |-> applied.status, calculator |-> applied.calculator,
          accounts |-> [accts EXCEPT ![account_order[j]].positions =
                           applied.positions]]
    ELSE run_funding_accounts(applied.calculator,
             [accts EXCEPT ![account_order[j]].positions = applied.positions],
             account_order, j + 1, key_order, rate)

run_funding_symbols(fc, accts, i, new_rates, account_order, key_order) ==
    IF i > Len(symbols)
    THEN [status |-> "Ok", calculator |-> fc, accounts |-> accts,
          rates |-> new_rates]
    ELSE IF symbols[i] \notin DOMAIN market_data
    THEN [status |-> "InvalidOrder", calculator |-> fc, accounts |-> accts,
          rates |-> <<>>]
    ELSE IF is_stale(market_data[symbols[i]], now)
    THEN [status |-> "InvalidOrder", calculator |-> fc, accounts |-> accts,
          rates |-> <<>>]
    ELSE run_funding_rated(accts, i, new_rates, account_order, key_order,
             calculate_funding_rate(fc, symbols[i],
                 market_data[symbols[i]].mark_price,
                 market_data[symbols[i]].index_price,
                 market_data[symbols[i]].open_interest_long,
                 market_data[symbols[i]].open_interest_short))

\* the symbols loop once calculate_funding_rate has returned
run_funding_rated(accts, i, new_rates, account_order, key_order, calculated) ==
    IF calculated.status # "Ok"
    THEN [status |-> calculated.status, calculator |-> calculated.calculator,
          accounts |-> accts, rates |-> <<>>]
    ELSE run_funding_applied(i, new_rates, account_order, key_order,
             calculated.rate,
             run_funding_accounts(calculated.calculator, accts, account_order,
                                  1, key_order, calculated.rate))

\* the symbols loop once the rate has been applied to the accounts
run_funding_applied(i, new_rates, account_order, key_order, rate, applied) ==
    IF applied.status # "Ok"
    THEN [status |-> applied.status, calculator |-> applied.calculator,
          accounts |-> applied.accounts, rates |-> <<>>]
    ELSE run_funding_symbols(applied.calculator, applied.accounts, i + 1,
                             Append(new_rates, rate), account_order, key_order)

\* Exchange::run_funding: the calculator and the accounts after the call,
\* "Ok" with the new rates or the error (or the panic)
run_funding(account_order, key_order) ==
    run_funding_symbols(funding_calculator, accounts, 1, <<>>, account_order,
                        key_order)

----------------------------------------------------------------------------
(* The venue and its callers *)

Users == {1, 2}
VenueSymbols == <<"BTC">>
LeverageOptions == {None, Some(2)}
MaxBalance == 1

\* the last call, as every action records it
Call(op, order, status, trades) ==
    [op |-> op, order |-> order, status |-> status, trades |-> trades]

NoRoundTrip == [phase |-> "none", id |-> 0, user |-> 0, balance |-> RatInt(0)]

\* no direct update_position call yet: the number of fills, the side of
\* the first, whether all were on that side, and the sums of the
\* quantities and of quantity * price
NoFills == [n |-> 0, side |-> "Buy", same_side |-> TRUE, sum_q |-> 0, sum_qp |-> 0]

\* the history after one more fill
RecordFill(h, side, qty, price) ==
    [n |-> h.n + 1,
     side |-> IF h.n = 0 THEN side ELSE h.side,
     same_side |-> h.same_side /\ (h.n = 0 \/ side = h.side),
     sum_q |-> h.sum_q + qty,
     sum_qp |-> h.sum_qp + qty * price]

\* Exchange::new(symbols, funding_interval, quote_asset) at clock value 0
\* a call of the funding calculator: its operation, outcome, rate and
\* market input
FundingCall(op, status, rate, input) ==
    [op |-> op, order |-> NoOrder, status |-> status, trades |-> <<>>,
     rate |-> rate, input |-> input]

\* the venue that Exchange::new builds, holding the accounts accts
Exchange_with(syms, funding_interval, quote, accts) ==
    /\ symbols = syms
    /\ quote_asset = quote
    /\ order_books = [x \in {syms[i] : i \in 1..Len(syms)} |-> OrderBook_new(x)]
    /\ accounts = accts
    /\ market_data = [x \in {syms[i] : i \in 1..Len(syms)} |-> MarketData_new(0)]
    /\ last_trade_prices = [x \in {syms[i] : i \in 1..Len(syms)} |-> 0]
    /\ funding_calculator = FundingCalculator_new(funding_interval, 0)
    /\ now = 0
    /\ nextId = 1
    /\ calls = 0
    /\ fills = NoFills
    /\ result = Call("new", NoOrder, "Ok", <<>>)
    /\ roundTrip = NoRoundTrip

Exchange_new(syms, funding_interval, quote) ==
    Exchange_with(syms, funding_interval, quote, EmptyMap)

\* the funding interval of the venue, in seconds
FundingInterval == 10

Init == Exchange_new(VenueSymbols, FundingInterval, "USDT")

\* Exchange::create_account
CreateAccount(u) ==
    /\ accounts' = IF u \in DOMAIN accounts THEN accounts
                   ELSE MapPut(accounts, u, Account_new)
    /\ result' = Call("create_account", NoOrder, "Ok", <<>>)
    /\ roundTrip' = NoRoundTrip
    /\ UNCHANGED <<funding_calculator, fills,
                   symbols, quote_asset, order_books, market_data,
                   last_trade_prices, now, nextId, calls>>

\* Account::deposit through the handle that create_account or get_account
\* returns
Deposit(u, asset, amount) ==
    /\ u \in DOMAIN accounts
    /\ RatLeq(RatAdd(get_balance(accounts[u], asset), amount), RatInt(MaxBalance))
    /\ accounts' = [accounts EXCEPT ![u] = deposit(@, asset, amount)]
    /\ result' = Call("deposit", NoOrder, "Ok", <<>>)
    /\ roundTrip' = NoRoundTrip
    /\ UNCHANGED <<funding_calculator, fills,
                   symbols, quote_asset, order_books, market_data,
                   last_trade_prices, now, nextId, calls>>

\* Exchange::update_market_data
UpdateMarketData(symbol, mark, index, oi_long, oi_short) ==
    /\ market_data' =
          IF symbol \in DOMAIN market_data
          THEN [market_data EXCEPT ![symbol] =
                   [mark_price |-> mark, index_price |-> index,
                    open_interest_long |-> oi_long,
                    open_interest_short |-> oi_short, last_update |-> now]]
          ELSE market_data
    /\ result' = Call("update_market_data", NoOrder, "Ok", <<>>)
    /\ roundTrip' = NoRoundTrip
    /\ UNCHANGED <<funding_calculator, fills,
                   symbols, quote_asset, order_books, accounts,
                   last_trade_prices, now, nextId, calls>>

\* the wall clock advances
MaxNow == 31

Tick(delta) ==
    /\ now + delta <= MaxNow
    /\ now' = now + delta
    /\ result' = Call("tick", NoOrder, "Ok", <<>>)
    /\ roundTrip' = NoRoundTrip
    /\ UNCHANGED <<funding_calculator, fills,
                   symbols, quote_asset, order_books, accounts, market_data,
                   last_trade_prices, nextId, calls>>

\* the round trip that a placement opens: a leveraged limit order that
\* was accepted and did not cross the book
round_trip_opened(order, r) ==
    IF /\ r.status = "Ok" /\ r.trades = <<>>
       /\ order.leverage # None /\ order.order_type = "Limit"
    THEN [phase |-> "placed", id |-> order.id, user |-> order.user_id,
          balance |-> get_balance(accounts[order.user_id], quote_asset)]
    ELSE NoRoundTrip

\* the venue after a call of place_order with outcome r
PlaceOrderDone(order, r) ==
    /\ order_books' = r.order_books
    /\ accounts' = r.accounts
    /\ last_trade_prices' = r.last_trade_prices
    /\ result' = Call("place_order", order, r.status, r.trades)
    /\ nextId' = IF r.order_books = order_books THEN nextId ELSE nextId + 1
    /\ roundTrip' = round_trip_opened(order, r)
    /\ UNCHANGED <<funding_calculator, fills,
                   symbols, quote_asset, market_data, now, calls>>

\* a call of Exchange::place_order.  An order that is rejected before the
\* book is touched leaves no trace of its id, so only an order that
\* changes the book uses up an id.
PlaceOrder(user, symbol, side, type, price, qty, lev, tif) ==
    /\ nextId <= MaxOrders
    /\ PlaceOrderDone(
           Order(nextId, user, symbol, side, type, price, qty, lev, tif),
           place_order(Order(nextId, user, symbol, side, type, price, qty, lev, tif)))

\* the venue after a call of cancel_order with outcome r
CancelOrderDone(user, order_id, side, r) ==
    /\ order_books' = r.order_books
    /\ accounts' = r.accounts
    /\ result' = Call("cancel_order",
                      [r.order EXCEPT !.id = order_id, !.user_id = user,
                                      !.side = side],
                      r.status, <<>>)
    /\ roundTrip' =
          IF /\ roundTrip.phase = "placed" /\ roundTrip.id = order_id
             /\ roundTrip.user = user /\ r.status = "Ok"
          THEN [roundTrip EXCEPT !.phase = "cancelled"]
          ELSE NoRoundTrip
    /\ UNCHANGED <<funding_calculator, fills,
                   symbols, quote_asset, market_data, last_trade_prices, now,
                   nextId, calls>>

\* a call of Exchange::cancel_order
CancelOrder(user, symbol, order_id, side) ==
    CancelOrderDone(user, order_id, side,
                    Exchange_cancel_order(user, symbol, order_id, side))

Next ==
    \/ \E u \in Users : CreateAccount(u)
    \/ \E u \in Users : Deposit(u, "USDT", RatInt(1))
    \/ UpdateMarketData("BTC", 1, 1, 1, 1)
    \/ Tick(StaleAfter + 1)
    \/ \E u \in Users, side \in Sides, price \in Prices, qty \in Quantities,
          lev \in LeverageOptions :
          PlaceOrder(u, "BTC", side, "Limit", price, qty, lev, "GTC")
    \/ \E u \in Users, side \in Sides, qty \in Quantities :
          PlaceOrder(u, "BTC", side, "Market", 1, qty, None, "GTC")
    \/ \E u \in Users : PlaceOrder(u, "XRP", "Buy", "Limit", 1, 1, None, "GTC")
    \/ \E u \in Users, id \in 1..MaxOrders, side \in Sides :
          CancelOrder(u, "BTC", id, side)

Spec == Init /\ [][Next]_vars

----------------------------------------------------------------------------
(* The order book of one symbol and its callers *)

MaxBookOrders == 3

\* the book after a call of add_order with outcome r
BookAddDone(order, r) ==
    /\ order_books' = [order_books EXCEPT ![order.symbol] = r.book]
    /\ result' = Call("add_order", order, r.status, r.trades)
    /\ nextId' = IF r.book = order_books[order.symbol] THEN nextId ELSE nextId + 1
    /\ UNCHANGED <<funding_calculator, fills,
                   symbols, quote_asset, accounts, market_data,
                   last_trade_prices, now, calls, roundTrip>>

\* a call of OrderBook::add_order on the book of BTC
BookAddOrder(side, type, price, qty, tif) ==
    /\ nextId <= MaxBookOrders
    /\ BookAddDone(Order(nextId, 1, "BTC", side, type, price, qty, None, tif),
                   add_order(order_books["BTC"],
                             Order(nextId, 1, "BTC", side, type, price, qty, None, tif)))

\* the book after a call of OrderBook::cancel_order with outcome r
BookCancelDone(order_id, side, r) ==
    /\ order_books' = [order_books EXCEPT !["BTC"] = r.book]
    /\ result' = Call("cancel_order",
                      [NoOrder EXCEPT !.id = order_id, !.side = side],
                      r.status, <<>>)
    /\ UNCHANGED <<funding_calculator, fills,
                   symbols, quote_asset, accounts, market_data,
                   last_trade_prices, now, nextId, calls, roundTrip>>

\* a call of OrderBook::cancel_order on the book of BTC
BookCancelOrder(order_id, side) ==
    BookCancelDone(order_id, side,
                   OrderBook_cancel_order(order_books["BTC"], order_id, side))

\* limit orders at every price, and market and stop orders, which carry
\* no price of their own
BookNext ==
    \/ \E side \in Sides, price \in Prices, qty \in Quantities :
          BookAddOrder(side, "Limit", price, qty, "GTC")
    \/ \E side \in Sides, type \in OrderTypes \ {"Limit"}, qty \in Quantities :
          BookAddOrder(side, type, 0, qty, "GTC")
    \/ \E id \in 1..MaxBookOrders, side \in Sides : BookCancelOrder(id, side)

BookSpec == Init /\ [][BookNext]_vars

\* the same callers with every time in force
TifNext ==
    \/ \E side \in Sides, price \in Prices, qty \in Quantities,
          tif \in TimeInForces :
          BookAddOrder(side, "Limit", price, qty, tif)
    \/ \E side \in Sides, qty \in Quantities, tif \in TimeInForces :
          BookAddOrder(side, "Market", 0, qty, tif)
    \/ \E id \in 1..MaxBookOrders, side \in Sides : BookCancelOrder(id, side)

TifSpec == Init /\ [][TifNext]_vars

----------------------------------------------------------------------------
(* One account's position ledger and its callers *)

MaxCalls == 3

\* a call of Account::update_position on the handle of user u
UpdatePosition(u, symbol, side, qty, price, lev) ==
    /\ calls < MaxCalls
    /\ u \in DOMAIN accounts
    /\ accounts' = [accounts EXCEPT ![u].positions =
                       update_position(@, symbol, side, qty, price, "Margin",
                                       lev, Some("Isolated"))]
    /\ calls' = calls + 1
    /\ fills' = RecordFill(fills, side, qty, price)
    /\ result' = Call("update_position",
                      Order(0, u, symbol, side, "Limit", price, qty, lev, "GTC"),
                      "Ok", <<>>)
    /\ UNCHANGED <<funding_calculator, symbols, quote_asset, order_books, market_data,
                   last_trade_prices, now, nextId, roundTrip>>

AccountNext ==
    \/ CreateAccount(1)
    \/ \E side \in Sides, qty \in Quantities, price \in Prices,
          lev \in LeverageOptions :
          UpdatePosition(1, "BTC", side, qty, price, lev)

AccountSpec == Init /\ [][AccountNext]_vars

----------------------------------------------------------------------------
(* The funding calculator and its callers *)

MaxFundings == 2

FundingSymbols == {"BTC", "ETH"}

\* market data as the oracle may push it, and as Exchange::new leaves it
MarketInputs ==
    {[mark_price |-> 10100, index_price |-> 10000,
      open_interest_long |-> 1, open_interest_short |-> 1],
     [mark_price |-> 10001, index_price |-> 10000,
      open_interest_long |-> 1, open_interest_short |-> 1],
     [mark_price |-> 10000, index_price |-> 10000,
      open_interest_long |-> 3, open_interest_short |-> 1],
     [mark_price |-> 9900, index_price |-> 10000,
      open_interest_long |-> 1, open_interest_short |-> 1],
     [mark_price |-> 0, index_price |-> 0,
      open_interest_long |-> 0, open_interest_short |-> 0]}

\* the positions on one symbol that a caller of apply_funding may hold;
\* as in update_position the symbol of a position is its key in the map
PositionInputs(symbol) ==
    {[symbol |-> symbol, side |-> sd, position_type |-> pt, quantity |-> q,
      entry_price |-> RatInt(1), leverage |-> None, liquidation_price |-> None,
      margin |-> mg, margin_type |-> Some("Isolated")] :
        sd \in Sides, pt \in {"Margin", "Spot"}, q \in {0, MaxQty},
        mg \in {None, Some(RatInt(0)), Some(RatInt(1))}}

\* the orders in which a HashMap may hand out the keys S
Orderings(S) ==
    {f \in [1..Cardinality(S) -> S] : \A x \in S : \E i \in 1..Cardinality(S) : f[i] = x}

\* a venue whose account 1 holds a position on each funding symbol
FundingInit ==
    \E p \in PositionInputs("BTC"),
       e \in {q \in PositionInputs("ETH") :
                 q.position_type = "Margin" /\ q.quantity > 0 /\ q.margin = Some(RatInt(1))} :
        Exchange_with(VenueSymbols, FundingInterval, "USDT",
                      [u \in {1} |->
                          [balances |-> EmptyMap,
                           positions |-> [x \in FundingSymbols |->
                                             IF x = "BTC" THEN p ELSE e]]])

\* the calculator after a call of calculate_funding_rate with outcome r
CalculateFundingRateDone(input, r) ==
    /\ funding_calculator' = r.calculator
    /\ result' = FundingCall("calculate_funding_rate", r.status, r.rate, input)
    /\ calls' = calls + 1
    /\ UNCHANGED <<symbols, quote_asset, order_books, accounts, market_data,
                   last_trade_prices, now, nextId, fills, roundTrip>>

\* a call of FundingCalculator::calculate_funding_rate
CalculateFundingRate(symbol, input) ==
    /\ calls < MaxFundings
    /\ CalculateFundingRateDone(input,
           calculate_funding_rate(funding_calculator, symbol, input.mark_price,
                                  input.index_price, input.open_interest_long,
                                  input.open_interest_short))

\* the calculator and the positions after a call of apply_funding
ApplyFundingDone(u, rate, r) ==
    /\ funding_calculator' = r.calculator
    /\ accounts' = [accounts EXCEPT ![u].positions = r.positions]
    /\ result' = FundingCall("apply_funding", r.status, rate, <<>>)
    /\ calls' = calls + 1
    /\ UNCHANGED <<symbols, quote_asset, order_books, market_data,
                   last_trade_prices, now, nextId, fills, roundTrip>>

\* a call of FundingCalculator::apply_funding on the positions of user u
\* with a rate that the calculator has returned
ApplyFunding(u, keys, rate) ==
    /\ calls < MaxFundings
    /\ ApplyFundingDone(u, rate,
           apply_funding(funding_calculator, accounts[u].positions, keys, rate, now))

FundingNext ==
    \/ Tick(FundingInterval)
    \/ \E symbol \in FundingSymbols, input \in MarketInputs :
          CalculateFundingRate(symbol, input)
    \/ \E keys \in Orderings(DOMAIN accounts[1].positions),
          i \in 1..Len(funding_calculator.funding_rate_history) :
          ApplyFunding(1, keys, funding_calculator.funding_rate_history[i])

FundingSpec == FundingInit /\ [][FundingNext]_vars

----------------------------------------------------------------------------
(* The venue with its funding run and a clock around the staleness threshold *)

\* the orders in which the accounts' maps may hand out their positions
KeyOrderings(accts) ==
    {f \in [DOMAIN accts ->
               UNION {Orderings(DOMAIN accts[u].positions) : u \in DOMAIN accts}] :
        \A u \in DOMAIN accts : f[u] \in Orderings(DOMAIN accts[u].positions)}

\* the venue after a call of run_funding with outcome r
RunFundingDone(r) ==
    /\ funding_calculator' = r.calculator
    /\ accounts' = r.accounts
    /\ result' = FundingCall("run_funding", r.status, r.rates, <<>>)
    /\ roundTrip' = NoRoundTrip
    /\ UNCHANGED <<symbols, quote_asset, order_books, market_data,
                   last_trade_prices, now, nextId, calls, fills>>

\* a call of Exchange::run_funding
RunFunding ==
    /\ Len(funding_calculator.funding_rate_history) < MaxFundings
    /\ \E account_order \in Orderings(DOMAIN accounts),
          key_order \in KeyOrderings(accounts) :
          RunFundingDone(run_funding(account_order, key_order))

StaleNext ==
    \/ CreateAccount(1)
    \/ UpdateMarketData("BTC", 1, 1, 1, 1)
    \/ Tick(StaleAfter)
    \/ Tick(StaleAfter + 1)
    \/ \E side \in Sides, lev \in LeverageOptions :
          PlaceOrder(1, "BTC", side, "Limit", 1, 1, lev, "GTC")
    \/ \E id \in 1..MaxOrders, side \in Sides : CancelOrder(1, "BTC", id, side)
    \/ RunFunding

StaleSpec == Init /\ [][StaleNext]_vars

----------------------------------------------------------------------------
(* A venue with two symbols and its funding run *)

TwoSymbols == <<"BTC", "ETH">>

TwoSymbolInit == Exchange_new(TwoSymbols, FundingInterval, "USDT")

FundingRunNext ==
    \/ CreateAccount(1)
    \/ \E symbol \in FundingSymbols : UpdateMarketData(symbol, 1, 1, 1, 1)
    \/ Tick(FundingInterval)
    \/ Tick(StaleAfter + 1)
    \/ RunFunding

FundingRunSpec == TwoSymbolInit /\ [][FundingRunNext]_vars

----------------------------------------------------------------------------
(* A venue whose quote asset is not USDT *)

QuoteAssets == {"USDT", "USDC"}

QuoteInit == Exchange_new(VenueSymbols, FundingInterval, "USDC")

QuoteNext ==
    \/ CreateAccount(1)
    \/ \E asset \in QuoteAssets : Deposit(1, asset, RatInt(1))
    \/ \E side \in Sides, price \in Prices, qty \in Quantities :
          PlaceOrder(1, "BTC", side, "Limit", price, qty, Some(2), "GTC")
    \/ \E id \in 1..MaxOrders, side \in Sides : CancelOrder(1, "BTC", id, side)

QuoteSpec == QuoteInit /\ [][QuoteNext]_vars

----------------------------------------------------------------------------
(* The venue and callers that submit malformed orders *)

\* prices and quantities that include zero
LoosePrices == 0..1
LooseQuantities == 0..1

ValidationNext ==
    \/ CreateAccount(1)
    \/ \E side \in Sides, type \in {"Limit", "Market"}, price \in LoosePrices,
          qty \in LooseQuantities :
          PlaceOrder(1, "BTC", side, type, price, qty, None, "GTC")
    \/ \E id \in 1..MaxOrders, side \in Sides : CancelOrder(1, "BTC", id, side)

ValidationSpec == Init /\ [][ValidationNext]_vars

----------------------------------------------------------------------------
(* Properties *)

\* the book of BTC
Book == order_books["BTC"]

\* the ids of the orders resting on one side
IdsOf(side) == {side[i].id : i \in 1..Len(side)}

\* the orders resting in the book
RestingOrders(book) ==
    {book.bids[i] : i \in 1..Len(book.bids)} \cup {book.asks[i] : i \in 1..Len(book.asks)}

\* the users of the order with the given id: the incoming order's user,
\* or the user of the order with that id resting in the book
OwnerOf(book, incoming, id) ==
    IF id = incoming.id THEN {incoming.user_id}
    ELSE {o.user_id : o \in {o2 \in RestingOrders(book) : o2.id = id}}

RECURSIVE SumQuantity(_)
SumQuantity(trades) ==
    IF trades = <<>> THEN 0
    ELSE Head(trades).quantity + SumQuantity(Tail(trades))

\* C1: a place_order call that returns an error leaves the order books,
\* the accounts and the last trade prices as they were before the call.
C1_ErrorLeavesVenueUnchanged ==
    [][(result'.op = "place_order" /\ result'.status # "Ok")
        => /\ order_books' = order_books
           /\ accounts' = accounts
           /\ last_trade_prices' = last_trade_prices]_vars

\* whether the user's account holds an open position of the side on BTC
HoldsPosition(accts, user, side) ==
    /\ user \in DOMAIN accts
    /\ "BTC" \in DOMAIN accts[user].positions
    /\ accts[user].positions["BTC"].quantity > 0
    /\ accts[user].positions["BTC"].side = side

\* C2: a place_order call that matches the incoming order against a
\* resting order returns Ok, and for each trade the buyer's account holds
\* a Buy position and the seller's account a Sell position on the symbol,
\* where before the call neither held any position.
C2_MatchUpdatesBothPositions ==
    [][(/\ result'.op = "place_order"
        /\ result'.trades # <<>>
        /\ \A u \in DOMAIN accounts : accounts[u].positions = EmptyMap
        /\ result'.order.user_id \notin
              OwnerOf(Book, result'.order,
                      IF result'.order.side = "Buy"
                      THEN result'.trades[1].seller_order_id
                      ELSE result'.trades[1].buyer_order_id))
        => /\ result'.status = "Ok"
           /\ \A k \in 1..Len(result'.trades) :
                /\ \A u \in OwnerOf(Book, result'.order,
                                    result'.trades[k].buyer_order_id) :
                      HoldsPosition(accounts', u, "Buy")
                /\ \A u \in OwnerOf(Book, result'.order,
                                    result'.trades[k].seller_order_id) :
                      HoldsPosition(accounts', u, "Sell")]_vars

\* C3: no resting bid has a price above the price of a resting ask.
C3_NoCrossedBook ==
    \A i \in 1..Len(Book.bids), j \in 1..Len(Book.asks) :
        Book.bids[i].price <= Book.asks[j].price

\* an add_order has matched and both sides of the book still hold orders
C3_Witness ==
    /\ result.op = "add_order"
    /\ result.trades # <<>>
    /\ Book.bids # <<>>
    /\ Book.asks # <<>>

\* the side of the book that an incoming order is matched against
Opposite(book, incoming) ==
    IF incoming.side = "Buy" THEN book.asks ELSE book.bids

\* the id of the resting order of a trade of the incoming order
RestingId(incoming, trade) ==
    IF incoming.side = "Buy" THEN trade.seller_order_id ELSE trade.buyer_order_id

\* every trade of the call carries the price that the order it names had
\* in the book before the call
TradesAtRestingPrice(book, call) ==
    \A k \in 1..Len(call.trades) :
        \E i \in 1..Len(Opposite(book, call.order)) :
            /\ Opposite(book, call.order)[i].id = RestingId(call.order, call.trades[k])
            /\ Opposite(book, call.order)[i].price = call.trades[k].price

\* C4: every trade that add_order emits carries the price of the order
\* that was resting in the book when the call began.
C4_MatchingPriceLaw ==
    [][result'.op = "add_order" => TradesAtRestingPrice(Book, result')]_vars

\* an add_order has emitted a trade at a price that is not the incoming
\* order's price
C4_Witness ==
    /\ result.op = "add_order"
    /\ result.order.order_type = "Limit"
    /\ \E k \in 1..Len(result.trades) :
          result.trades[k].price # result.order.price

\* whether price p is better than price q for the incoming order
Better(incoming, p, q) == IF incoming.side = "Buy" THEN p < q ELSE p > q

\* the trades of the call come best price first: no trade is at a better
\* price than an earlier one, and a resting order at a better price than a
\* trade's was matched before that trade
BestPriceFirst(book, call) ==
    /\ \A k, l \in 1..Len(call.trades) :
          k < l => ~Better(call.order, call.trades[l].price, call.trades[k].price)
    /\ \A k \in 1..Len(call.trades), i \in 1..Len(Opposite(book, call.order)) :
          Better(call.order, Opposite(book, call.order)[i].price,
                 call.trades[k].price)
          => \E j \in 1..(k - 1) :
                RestingId(call.order, call.trades[j])
                    = Opposite(book, call.order)[i].id

\* of two resting orders at one price, the one posted later is matched
\* only after the one posted earlier, which is then gone from the book
TimePriority(book, call, bookAfter) ==
    \A i, j \in 1..Len(Opposite(book, call.order)), l \in 1..Len(call.trades) :
        (/\ Opposite(book, call.order)[i].price = Opposite(book, call.order)[j].price
         /\ Opposite(book, call.order)[i].id < Opposite(book, call.order)[j].id
         /\ RestingId(call.order, call.trades[l]) = Opposite(book, call.order)[j].id)
        => /\ \E k \in 1..(l - 1) :
                 RestingId(call.order, call.trades[k])
                     = Opposite(book, call.order)[i].id
           /\ Opposite(book, call.order)[i].id
                 \notin IdsOf(Opposite(bookAfter, call.order))

\* C5: within one add_order call the trades come best price first, and
\* among resting orders at one price the one posted earlier is matched and
\* exhausted before one posted later, after any placements and cancels.
C5_PriceTimePriority ==
    [][result'.op = "add_order"
        => /\ BestPriceFirst(Book, result')
           /\ TimePriority(Book, result', order_books'["BTC"])]_vars

\* one add_order has matched two resting orders at the same price
C5_Witness ==
    /\ result.op = "add_order"
    /\ Len(result.trades) >= 2
    /\ result.trades[1].price = result.trades[2].price
    /\ RestingId(result.order, result.trades[1])
          < RestingId(result.order, result.trades[2])

\* C6: a leveraged limit order that does not cross is placed and then
\* cancelled by its user; the user's quote balance is what it was before
\* the placement.
C6_RoundTripRestoresBalance ==
    roundTrip.phase = "cancelled"
    => get_balance(accounts[roundTrip.user], quote_asset) = roundTrip.balance

\* C7: a place_order call that accepts an order with leverage lowers the
\* account's quote balance by exactly quantity * price / leverage.
C7_CollateralLocked ==
    [][(/\ result'.op = "place_order"
        /\ result'.status = "Ok"
        /\ result'.order.leverage # None)
        => get_balance(accounts'[result'.order.user_id], quote_asset)
              = RatSub(get_balance(accounts[result'.order.user_id], quote_asset),
                       calculate_required_margin(
                           result'.order.quantity, result'.order.price,
                           result'.order.leverage[1], "Isolated"))]_vars

\* C8: after add_order of an IOC order the order's id rests on neither
\* side of the book.
C8_IocNeverRests ==
    (result.op = "add_order" /\ result.order.time_in_force = "IOC")
    => result.order.id \notin IdsOf(Book.bids) \cup IdsOf(Book.asks)

\* C9: add_order of a FOK order either emits trades whose quantities sum
\* to the order's quantity, or emits no trade and leaves the book as it was.
C9_FokAllOrNothing ==
    [][(result'.op = "add_order" /\ result'.order.time_in_force = "FOK")
        => \/ SumQuantity(result'.trades) = result'.order.quantity
           \/ (result'.trades = <<>> /\ order_books' = order_books)]_vars

\* the flip that the claim describes: the position after the call has the
\* incoming side, the difference of the quantities and the fill price
FlipResult(before, call, after) ==
    (/\ before.quantity > 0
     /\ before.side # call.order.side
     /\ call.order.quantity > before.quantity)
    => /\ after.side = call.order.side
       /\ after.quantity = call.order.quantity - before.quantity
       /\ after.entry_price = RatInt(call.order.price)

\* C10: update_position with a fill on the opposite side that is larger
\* than the position gives the incoming side, quantity q_i - q_p and the
\* fill price as the entry price.
C10_SideFlip ==
    [][(/\ result'.op = "update_position"
        /\ calls' = calls + 1
        /\ "BTC" \in DOMAIN accounts[1].positions)
        => FlipResult(accounts[1].positions["BTC"], result',
                      accounts'[1].positions["BTC"])]_vars

\* the position of user 1 on BTC, which the direct calls of the ledger build
Ledger == accounts[1].positions["BTC"]

\* every direct call so far was a fill on one side
SameSideFills == fills.n > 0 /\ fills.same_side

\* the quotient of the two sums of the fills
ExactAverage == Rat(fills.sum_qp, fills.sum_q)

\* C11 as stated: after fills that are all on one side the position's
\* quantity is the sum of the fill quantities and its entry price equals
\* the sum of quantity * price divided by the sum of the quantities.
C11_WeightedAverageExact ==
    SameSideFills
    => /\ Ledger.quantity = fills.sum_q
       /\ Ledger.entry_price = ExactAverage

\* C11 as amended: the entry price equals that quotient up to the rounding
\* of the decimal division, one unit of the last kept digit for each fill.
C11_WeightedAverageRounded ==
    SameSideFills
    => /\ Ledger.quantity = fills.sum_q
       /\ RatLeq(RatAbs(RatSub(Ledger.entry_price, ExactAverage)),
                 RatMul(Rat(fills.n, Pow10(DivDigits - 1)), ExactAverage))

\* fills on one side whose average is not a terminating decimal of
\* DivDigits digits
C11_Witness ==
    /\ SameSideFills
    /\ fills.n >= 2
    /\ Ledger.entry_price # ExactAverage

\* the partial close that the claim describes: the position keeps its side
\* and entry price and loses the fill's quantity
PartialClose(before, call, after) ==
    (/\ before.side # call.order.side
     /\ call.order.quantity <= before.quantity)
    => /\ after.quantity = before.quantity - call.order.quantity
       /\ after.side = before.side
       /\ after.entry_price = before.entry_price

\* C12: after every update_position call with a positive fill the
\* position's quantity is not negative, and a fill on the opposite side
\* that is not larger than the position lowers the quantity by the fill and
\* leaves side and entry price as they were.
C12_PartialClose ==
    [][(result'.op = "update_position" /\ calls' = calls + 1)
        => /\ accounts'[1].positions["BTC"].quantity >= 0
           /\ "BTC" \in DOMAIN accounts[1].positions
                 => PartialClose(accounts[1].positions["BTC"], result',
                                 accounts'[1].positions["BTC"])]_vars

\* a fill has closed part of a position: the position is still open on
\* the side opposite to the fill
C12_Witness ==
    /\ result.op = "update_position"
    /\ Ledger.quantity > 0
    /\ Ledger.side # result.order.side

\* the rate before the clamp, from the market input of the call
RawRate(input) ==
    RatAdd(RatAdd(Rat(input.mark_price - input.index_price, input.index_price),
                  Rat(1, 10000)),
           RatMul(IF input.open_interest_long + input.open_interest_short > 0
                  THEN Rat(input.open_interest_long - input.open_interest_short,
                           input.open_interest_long + input.open_interest_short)
                  ELSE RatInt(0),
                  Rat(1, 10000)))

\* whether a rate lies between -0.00075 and 0.00075
InBand(rate) == RatLeq(Rat(-75, 100000), rate) /\ RatLeq(rate, Rat(75, 100000))

\* C13: for every market input calculate_funding_rate returns a rate
\* between -0.00075 and 0.00075, which is premium + 0.0001 + oi_impact
\* when that value lies in the interval.
C13_FundingRateClamp ==
    result.op = "calculate_funding_rate"
    => /\ result.status = "Ok"
       /\ InBand(result.rate.rate)
       /\ InBand(RawRate(result.input)) => result.rate.rate = RawRate(result.input)

\* the payment of the claim: quantity * entry_price * rate
PaymentOf(position, rate) ==
    RatMul(RatMul(RatInt(position.quantity), position.entry_price), rate.rate)

\* the funding of one position as the claim states it, where added is the
\* sequence of the payment records that the call has appended
FundingSettled(before, after, rate, added) ==
    /\ (/\ before.symbol = rate.symbol /\ before.quantity > 0
        /\ before.position_type = "Margin" /\ before.margin # None)
       => after.margin =
             Some(IF before.side = "Buy"
                  THEN RatSub(before.margin[1], PaymentOf(before, rate))
                  ELSE RatAdd(before.margin[1], PaymentOf(before, rate)))
    /\ (before.symbol # rate.symbol \/ before.quantity = 0)
       => /\ after = before
          /\ \A k \in 1..Len(added) : added[k].symbol # before.symbol

\* C14: an apply_funding call at or after the rate's funding time changes
\* the margin of every open Margin position on the rate's symbol that has
\* a margin by quantity * entry_price * rate, down for a Buy and up for a
\* Sell, and leaves every position on another symbol or of quantity 0 as
\* it was, with no payment record.
C14_FundingPayment ==
    [][(result'.op = "apply_funding" /\ now >= result'.rate.next_funding_time)
        => \A x \in DOMAIN accounts[1].positions :
              FundingSettled(accounts[1].positions[x], accounts'[1].positions[x],
                  result'.rate,
                  SubSeq(funding_calculator'.funding_payments,
                         Len(funding_calculator.funding_payments) + 1,
                         Len(funding_calculator'.funding_payments)))]_vars

\* funding has been applied at its time to a position that has a margin,
\* and the payment is on record
C14_Witness ==
    /\ result.op = "apply_funding"
    /\ result.status = "Ok"
    /\ now >= result.rate.next_funding_time
    /\ funding_calculator.funding_payments # <<>>
    /\ \E x \in DOMAIN accounts[1].positions :
          /\ accounts[1].positions[x].symbol = result.rate.symbol
          /\ accounts[1].positions[x].margin # None
          /\ accounts[1].positions[x].margin \notin {Some(RatInt(0)), Some(RatInt(1))}

\* whether the market data of the symbol is more than 30 seconds old
OlderThanThreshold(symbol) == now - market_data[symbol].last_update > 30

\* the margin that the order has to lock
RequiredMargin(order) ==
    calculate_required_margin(order.quantity, order.price, order.leverage[1],
                              "Isolated")

\* C15: place_order of a leveraged order by an existing account on a
\* configured symbol with fresh market data returns InsufficientBalance
\* exactly when the account's balance in the venue's quote asset is below
\* the required margin, and then changes neither books nor accounts.
C15_InsufficientBalance ==
    [][(/\ result'.op = "place_order"
        /\ result'.order.leverage # None
        /\ Contains(symbols, result'.order.symbol)
        /\ ~OlderThanThreshold(result'.order.symbol)
        /\ result'.order.user_id \in DOMAIN accounts)
        => /\ result'.status = "InsufficientBalance"
                <=> RatLess(get_balance(accounts[result'.order.user_id], quote_asset),
                            RequiredMargin(result'.order))
           /\ result'.status = "InsufficientBalance"
                => order_books' = order_books /\ accounts' = accounts]_vars

\* the position that the account would hold once the order has filled
HypotheticalPosition(account, order) ==
    fold_fill(position_entry(account.positions, order.symbol, order.side,
                             "Margin", order.leverage, Some("Isolated")),
              order.side, order.quantity, order.price)

\* whether a position is at or beyond its Isolated liquidation price
AtLiquidation(position, mark_price, leverage) ==
    is_position_liquidated(RatInt(mark_price), position.entry_price,
                           position.side, leverage, "Isolated")

\* C16: place_order of a leveraged order that passes the checks before
\* the liquidation check returns WouldLiquidate and leaves the book alone
\* whenever the position after a full fill would be at or beyond its
\* liquidation price at the current mark price, pushed by the oracle.
C16_WouldLiquidate ==
    [][(/\ result'.op = "place_order"
        /\ result'.order.leverage # None
        /\ Contains(symbols, result'.order.symbol)
        /\ ~OlderThanThreshold(result'.order.symbol)
        /\ market_data[result'.order.symbol].mark_price > 0
        /\ result'.order.user_id \in DOMAIN accounts
        /\ ~RatLess(get_balance(accounts[result'.order.user_id], quote_asset),
                    RequiredMargin(result'.order))
        /\ AtLiquidation(HypotheticalPosition(accounts[result'.order.user_id],
                                              result'.order),
                         market_data[result'.order.symbol].mark_price,
                         result'.order.leverage[1]))
        => /\ result'.status = "WouldLiquidate"
           /\ order_books' = order_books]_vars

\* whether the order with the id rests on the named side for the user
RestsFor(book, order_id, side, user) ==
    \E i \in 1..Len(resting_side(book, side)) :
        /\ resting_side(book, side)[i].id = order_id
        /\ resting_side(book, side)[i].user_id = user

\* C17: place_order and run_funding return InvalidOrder when the market
\* data is more than 30 seconds old and do not when it is at most 30
\* seconds old, and cancel_order of a resting order by its owner succeeds
\* however old the market data is.
C17_StaleMarketData ==
    [][/\ result'.op \in {"place_order", "run_funding"}
            => (result'.status = "InvalidOrder"
                    <=> OlderThanThreshold("BTC"))
       /\ (/\ result'.op = "cancel_order"
           /\ RestsFor(Book, result'.order.id, result'.order.side,
                       result'.order.user_id))
            => result'.status = "Ok"]_vars

\* an order that was placed on fresh data has been cancelled on data that
\* is stale, after a run_funding or a place_order met the threshold
C17_Witness ==
    /\ result.op = "cancel_order"
    /\ result.status = "Ok"
    /\ OlderThanThreshold("BTC")

\* C18: place_order of an order whose quantity is not positive, or of a
\* Limit order whose price is not positive, by an existing account
\* returns InvalidOrder and changes nothing.
C18_MalformedRejected ==
    [][(/\ result'.op = "place_order"
        /\ result'.order.user_id \in DOMAIN accounts
        /\ \/ result'.order.quantity <= 0
           \/ result'.order.order_type = "Limit" /\ result'.order.price <= 0)
        => /\ result'.status = "InvalidOrder"
           /\ order_books' = order_books
           /\ accounts' = accounts
           /\ last_trade_prices' = last_trade_prices]_vars

\* C19: add_order of a Stop or StopLimit order emits no trade and leaves
\* the book, and with it every resting order's filled_quantity, as it was.
C19_StopNeverMatched ==
    [][(/\ result'.op = "add_order"
        /\ result'.order.order_type \in {"Stop", "StopLimit"})
        => /\ result'.trades = <<>>
           /\ order_books' = order_books]_vars

\* a side of the book without the order of the given id
Without(side, order_id) == SelectSeq(side, LAMBDA o : o.id # order_id)

\* the effect of OrderBook::cancel_order as the claim states it
CancelFrame(book, call, after) ==
    IF call.order.id \in IdsOf(resting_side(book, call.order.side))
    THEN /\ call.status = "Ok"
         /\ resting_side(after, call.order.side)
               = Without(resting_side(book, call.order.side), call.order.id)
         /\ Opposite(after, call.order) = Opposite(book, call.order)
    ELSE /\ call.status = "OrderNotFound"
         /\ after = book

\* C20: OrderBook::cancel_order removes the order with the id from the
\* named side and nothing else, keeping the order of the others; when no
\* such order rests on that side it returns OrderNotFound and the book is
\* unchanged.
C20_CancelFrame ==
    [][result'.op = "cancel_order"
        => CancelFrame(Book, result', order_books'["BTC"])]_vars

\* a cancel has removed one order and left another behind it on the same
\* side, with an order on the other side
C20_Witness ==
    /\ result.op = "cancel_order"
    /\ result.status = "Ok"
    /\ resting_side(Book, result.order.side) # <<>>
    /\ Opposite(Book, result.order) # <<>>
    /\ \E i \in 1..Len(resting_side(Book, result.order.side)) :
          resting_side(Book, result.order.side)[i].id > result.order.id

\* the remainder of the incoming order as the claim states it: the order
\* rests with the unfilled quantity and no fill, and the depth of its side
\* shows that quantity
RemainderRests(call, own, depth) ==
    \E i \in 1..Len(own) :
        /\ own[i].id = call.order.id
        /\ own[i].quantity = call.order.quantity - SumQuantity(call.trades)
        /\ own[i].filled_quantity = 0
        /\ depth[i] = <<call.order.price,
                        call.order.quantity - SumQuantity(call.trades)>>

\* C21: when add_order matches a Limit order of quantity Q for F < Q and
\* posts the remainder, the resting order has quantity Q - F and
\* filled_quantity 0, and get_depth reports Q - F at its price.
C21_PartialFillRests ==
    [][(/\ result'.op = "add_order"
        /\ result'.order.order_type = "Limit"
        /\ result'.trades # <<>>
        /\ result'.order.id
              \in IdsOf(resting_side(order_books'["BTC"], result'.order.side)))
        => RemainderRests(result',
               resting_side(order_books'["BTC"], result'.order.side),
               IF result'.order.side = "Buy"
               THEN get_depth(order_books'["BTC"], MaxBookOrders).bids
               ELSE get_depth(order_books'["BTC"], MaxBookOrders).asks)]_vars

\* C22: every order resting in the book has a filled_quantity that is not
\* negative and is below its quantity.
C22_FilledBelowQuantity ==
    \A o \in RestingOrders(Book) :
        0 <= o.filled_quantity /\ o.filled_quantity < o.quantity

\* C23: every trade of an add_order call has a positive quantity, and the
\* quantities of the call's trades sum to at most the incoming quantity.
C23_TradeQuantities ==
    result.op = "add_order"
    => /\ \A k \in 1..Len(result.trades) : result.trades[k].quantity > 0
       /\ SumQuantity(result.trades) <= result.order.quantity

\* whether the order with the id rests on the named side for another user
RestsForAnother(book, order_id, side, user) ==
    \E i \in 1..Len(resting_side(book, side)) :
        /\ resting_side(book, side)[i].id = order_id
        /\ resting_side(book, side)[i].user_id # user

\* C24: a cancel_order call by a user who is not the owner of the resting
\* order leaves the order in the book and credits no account.
C24_CancelOnlyByOwner ==
    [][(/\ result'.op = "cancel_order"
        /\ RestsForAnother(Book, result'.order.id, result'.order.side,
                           result'.order.user_id))
        => /\ order_books' = order_books
           /\ accounts' = accounts]_vars

\* the funding state of the venue: the calculator with its schedule and
\* histories, and every position's margin
FundingState == <<funding_calculator, accounts>>

\* C25: a run_funding call that returns an error leaves the funding rate
\* and payment histories, the funding schedule and every position's
\* margin as they were before the call.
C25_RunFundingAllOrNothing ==
    [][(/\ result'.op = "run_funding"
        /\ result'.status \in {"InvalidOrder", "FundingError"})
        => FundingState' = FundingState]_vars

\* C26: the rates that one run_funding call returns all have the same
\* next_funding_time.
C26_SharedFundingDeadline ==
    (result.op = "run_funding" /\ result.status = "Ok")
    => \A i, j \in 1..Len(result.rate) :
          result.rate[i].next_funding_time = result.rate[j].next_funding_time

\* C27: every run_funding call returns, with rates or with an OrderError;
\* it never divides by an index price of zero.
C27_RunFundingReturns ==
    result.op = "run_funding"
    => result.status \in {"Ok", "InvalidOrder", "FundingError"}

====
